---- MODULE Spec2Model ----
(***************************************************************************)
(* A model of the acute-edge Voronoi evolution engine:                     *)
(*   VoronoiMesh  (edge extraction, connectivity),                         *)
(*   EdgeAnalyzer (acute angle analysis, expand/shrink values),            *)
(*   MeshEvolver  (spring-damper step on the edge endpoints),              *)
(*   AcuteEdgeVoronoiApp (regenerate / start / pause / timer tick).        *)
(*                                                                         *)
(* Numbers.  The program computes with IEEE doubles; the model computes    *)
(* with integers.  A coordinate or a length is a whole number of length    *)
(* units, Micro units making 1e-6, so that rounding to six decimals        *)
(* (toFixed(6)), the 1e-6 tolerance of pointsEqual and the 0.01 grid of    *)
(* findConnectedEdges are all coarser than the coordinates they act on.    *)
(* Forces and velocities are kept in tenths of a unit.  Every              *)
(* quotient rounds to the nearest representable value, symmetrically in    *)
(* the sign.                                                               *)
(***************************************************************************)
EXTENDS Integers, Sequences, FiniteSets, TLC

VARIABLES
    cells,              \* VoronoiMesh.cells: the cell polygons, arrays of [x, y]
    edges,              \* VoronoiMesh.edges: the edge objects
    cellPositions,      \* cellMesh.geometry.attributes.position, as points
    vertexVelocities,   \* MeshEvolver.vertexVelocities: Map key -> {x, y}
    generation,         \* AcuteEdgeVoronoiApp.generation
    isEvolutionRunning, \* AcuteEdgeVoronoiApp.isEvolutionRunning
    evolutionTimer,     \* AcuteEdgeVoronoiApp.evolutionTimer: 0 (null) or an interval id
    timers,             \* the host's set of live interval ids
    changeRate,         \* AcuteEdgeVoronoiApp.config.changeRate
    pre,                \* history: the mesh and the store as the last step found them
    step,               \* history: what the last step computed on the way
    ticks               \* history: the generations run since the page was loaded

vars == <<cells, edges, cellPositions, vertexVelocities, generation,
          isEvolutionRunning, evolutionTimer, timers, changeRate, pre, step, ticks>>

----------------------------------------------------------------------------
(* Bounds of the model *)

\* Length units in 1e-6: the resolution of the model's coordinates.
Micro == 3

\* Generations a run of the model takes.
MaxGen == 2

----------------------------------------------------------------------------
(* Arithmetic *)

Abs(a) == IF a < 0 THEN -a ELSE a

Sign(a) == IF a < 0 THEN -1 ELSE IF a > 0 THEN 1 ELSE 0

Max(a, b) == IF a >= b THEN a ELSE b

Min(a, b) == IF a <= b THEN a ELSE b

\* a / b for b > 0, to the nearest integer, halves away from zero.
RDiv(a, b) == Sign(a) * ((Abs(a) + b \div 2) \div b)

\* <<(a * b) \div c, (a * b) % c>> for a, b >= 0 and c > 0, by doubling, so
\* that no intermediate value leaves the model's integers.
RECURSIVE QuoRem(_, _, _)
QuoRem(a, b, c) ==
    IF b = 0 THEN <<0, 0>>
    ELSE LET half == QuoRem(a, b \div 2, c)
             rest == 2 * half[2] + (IF b % 2 = 1 THEN a ELSE 0)
         IN  <<2 * half[1] + rest \div c, rest % c>>

\* a * b / c for c > 0, to the nearest integer, halves away from zero.
MulDiv(a, b, c) ==
    LET qr == QuoRem(Max(Abs(a), Abs(b)), Min(Abs(a), Abs(b)), c)
    IN  Sign(a) * Sign(b) * (qr[1] + (IF 2 * qr[2] >= c THEN 1 ELSE 0))

RECURSIVE SqrtIter(_, _)
SqrtIter(n, x) ==
    LET y == (x + n \div x) \div 2
    IN  IF y >= x THEN x ELSE SqrtIter(n, y)

\* Math.sqrt on a whole number, to the nearest unit; 0 only for 0.
Sqrt(n) ==
    IF n = 0 THEN 0
    ELSE LET r == SqrtIter(n, Min(n, 46340))
         IN  IF n - r * r > r THEN r + 1 ELSE r

\* Math.sqrt(dx * dx + dy * dy).  Components too long to square in the
\* model's integers are scaled down first and the root scaled back.
Hypot(dx, dy) ==
    LET m == Max(Abs(dx), Abs(dy))
        s == (m \div 30000) + 1
    IN  IF s = 1 THEN Sqrt(dx * dx + dy * dy)
        ELSE s * Sqrt(RDiv(dx, s) * RDiv(dx, s) + RDiv(dy, s) * RDiv(dy, s))

\* A vector brought to the scale Hypot works at: the direction is kept.
Shrunk(v) ==
    LET s == (Max(Abs(v.x), Abs(v.y)) \div 30000) + 1
    IN  [x |-> RDiv(v.x, s), y |-> RDiv(v.y, s)]

RECURSIVE SumSeq(_)
SumSeq(s) == IF s = << >> THEN 0 ELSE Head(s) + SumSeq(Tail(s))

RECURSIVE Flatten(_)
Flatten(ss) == IF ss = << >> THEN << >> ELSE Head(ss) \o Flatten(Tail(ss))

Range(s) == {s[i] : i \in 1..Len(s)}

\* The same sequence, the same map: every element worked out once.
Array(s) == << >> \o s

MapOf(f) == f @@ << >>

----------------------------------------------------------------------------
(* Number formatting *)

\* Number.prototype.toFixed(6): the sign of a negative number, then the
\* magnitude rounded to six decimals (a tie goes to the larger magnitude).
\* A negative number that rounds to zero keeps its sign: "-0.000000".
toFixed6(c) ==
    <<IF c < 0 THEN "-" ELSE "", (2 * Abs(c) + Micro) \div (2 * Micro)>>

\* Math.round(c / d), d > 0: to the nearest integer, halves toward +infinity.
MathRound(c, d) == (2 * c + d) \div (2 * d)

----------------------------------------------------------------------------
(* VoronoiMesh: edge extraction *)

\* edge.originalLength / edge.targetLength while the property is absent.
undefined == -1

\* VoronoiMesh.createEdgeKey(start, end), start and end arrays [x, y].
createEdgeKey(start, end) ==
    LET startFirst == start[1] < end[1] \/ (start[1] = end[1] /\ start[2] < end[2])
        p1 == IF startFirst THEN start ELSE end
        p2 == IF startFirst THEN end ELSE start
    IN  <<toFixed6(p1[1]), toFixed6(p1[2]), toFixed6(p2[1]), toFixed6(p2[2])>>

\* The sides of one cell polygon in the order the inner loop visits them:
\* polygon[i] to polygon[(i + 1) % polygon.length].
SidesOfCell(cellIndex, polygon) ==
    Array([i \in 1..Len(polygon) |->
        [cell |-> cellIndex, start |-> polygon[i],
         end |-> polygon[(i % Len(polygon)) + 1]]])

\* All sides in the order the two loops of extractEdgesFromCells visit them.
AllSides(cs) == Flatten([k \in 1..Len(cs) |-> SidesOfCell(k - 1, cs[k].polygon)])

\* The edge object with ids counted from one.
NewEdgeFromOne(id, side) ==
    [id |-> id + 1,
     start |-> [x |-> side.start[1], y |-> side.start[2]],
     end |-> [x |-> side.end[1], y |-> side.end[2]],
     length |-> Hypot(side.end[1] - side.start[1], side.end[2] - side.start[2]),
     connectedCells |-> <<side.cell>>,
     connectedEdges |-> << >>,
     acuteAngleCount |-> 0,
     expandValue |-> 0,
     originalLength |-> undefined,
     targetLength |-> undefined]

\* The edge object extractEdgesFromCells creates for a side not seen before.
NewEdge(id, side) ==
    [id |-> id,
     start |-> [x |-> side.start[1], y |-> side.start[2]],
     end |-> [x |-> side.end[1], y |-> side.end[2]],
     length |-> Hypot(side.end[1] - side.start[1], side.end[2] - side.start[2]),
     connectedCells |-> <<side.cell>>,
     connectedEdges |-> << >>,
     acuteAngleCount |-> 0,
     expandValue |-> 0,
     originalLength |-> undefined,
     targetLength |-> undefined]

\* One pass of the inner loop body: es the edges so far, keys[j] the key
\* under which edgeMap holds es[j].
RECURSIVE ExtractLoop(_, _, _)
ExtractLoop(sides, es, keys) ==
    IF sides = << >> THEN es
    ELSE LET side == Head(sides)
             edgeKey == createEdgeKey(side.start, side.end)
             hit == {j \in 1..Len(es) : keys[j] = edgeKey}
         IN  IF hit = {}
             THEN ExtractLoop(Tail(sides), Append(es, NewEdge(Len(es), side)),
                              Append(keys, edgeKey))
             ELSE LET j == CHOOSE j \in hit : TRUE
                  IN  ExtractLoop(Tail(sides),
                        [es EXCEPT ![j].connectedCells = Append(@, side.cell)],
                        keys)

\* VoronoiMesh.extractEdgesFromCells, from this.edges = [].
extractEdgesFromCells(cs) == ExtractLoop(AllSides(cs), << >>, << >>)

----------------------------------------------------------------------------
(* VoronoiMesh: connectivity *)

\* gridSize = 0.01, in length units.
gridSize == 10000 * Micro

\* getGridKey(vertex) of findConnectedEdges.
getGridKey(vertex) == <<MathRound(vertex.x, gridSize), MathRound(vertex.y, gridSize)>>

\* vertexGrid.get(key): the { edgeIndex, isStart } entries in push order
\* (start before end, edge by edge), as their edge indices.
GridBucket(es, key) ==
    Flatten([i \in 1..Len(es) |->
        (IF getGridKey(es[i].start) = key THEN <<i - 1>> ELSE << >>)
        \o (IF getGridKey(es[i].end) = key THEN <<i - 1>> ELSE << >>)])

\* The loop over startNeighbors: every entry of another edge is pushed.
RECURSIVE PushStart(_, _, _)
PushStart(neighbors, i, acc) ==
    IF neighbors = << >> THEN acc
    ELSE PushStart(Tail(neighbors), i,
            IF Head(neighbors) # i THEN Append(acc, Head(neighbors)) ELSE acc)

\* The loop over endNeighbors with nothing pushed.
PushEndNothing(neighbors, i, acc) == acc

\* The loop over endNeighbors: pushed unless already included.
RECURSIVE PushEnd(_, _, _)
PushEnd(neighbors, i, acc) ==
    IF neighbors = << >> THEN acc
    ELSE PushEnd(Tail(neighbors), i,
            IF Head(neighbors) # i /\ Head(neighbors) \notin Range(acc)
            THEN Append(acc, Head(neighbors)) ELSE acc)

\* edge.connectedEdges as findConnectedEdges leaves it for edge index i.
ConnectedOf(es, i) ==
    LET startNeighbors == GridBucket(es, getGridKey(es[i + 1].start))
        endNeighbors == GridBucket(es, getGridKey(es[i + 1].end))
    IN  PushEnd(endNeighbors, i, PushStart(startNeighbors, i, << >>))

\* VoronoiMesh.findConnectedEdges.
findConnectedEdges(es) ==
    Array([k \in 1..Len(es) |-> [es[k] EXCEPT !.connectedEdges = ConnectedOf(es, k - 1)]])

\* VoronoiMesh.extractEdgeData.
extractEdgeData(cs) == findConnectedEdges(extractEdgesFromCells(cs))

----------------------------------------------------------------------------
(* EdgeAnalyzer *)

\* tolerance = 1e-6 of findSharedVertex and getDirectionFromVertex.
tolerance == Micro

\* EdgeAnalyzer.pointsEqual(p1, p2, tolerance).
pointsEqual(p1, p2) == Abs(p1.x - p2.x) < tolerance /\ Abs(p1.y - p2.y) < tolerance

\* The value findSharedVertex returns when no endpoints coincide: no point
\* of the plane.
null == [x |-> 2147483647, y |-> 2147483647]

\* EdgeAnalyzer.findSharedVertex(edge1, edge2).
findSharedVertex(edge1, edge2) ==
    IF pointsEqual(edge1.start, edge2.start) THEN edge1.start
    ELSE IF pointsEqual(edge1.start, edge2.end) THEN edge1.start
    ELSE IF pointsEqual(edge1.end, edge2.start) THEN edge1.end
    ELSE IF pointsEqual(edge1.end, edge2.end) THEN edge1.end
    ELSE null

\* EdgeAnalyzer.getDirectionFromVertex(edge, sharedVertex).
getDirectionFromVertex(edge, sharedVertex) ==
    IF pointsEqual(edge.start, sharedVertex)
    THEN [x |-> edge.end.x - edge.start.x, y |-> edge.end.y - edge.start.y]
    ELSE [x |-> edge.start.x - edge.end.x, y |-> edge.start.y - edge.end.y]

\* cos of 0, 5, ..., 90 degrees, in thousandths.
CosTable == <<1000, 996, 985, 966, 940, 906, 866, 819, 766, 707,
              643, 574, 500, 423, 342, 259, 174, 87, 0>>

\* dot / (mag1 * mag2) in thousandths, clamped to [-1, 1].
CosThousandths(dot, mm) ==
    LET q == IF Abs(dot) <= 2000000 THEN RDiv(1000 * dot, mm)
             ELSE RDiv(dot, Max(1, RDiv(mm, 1000)))
    IN  Max(-1000, Min(1000, q))

\* Math.acos(clampedCos) * (180 / Math.PI) for cos = dot / mm, mm > 0.
\* The sign of the cosine decides the side of 90 degrees exactly; within a
\* side the angle is given to the 5 degrees of CosTable.
AcosDegrees(dot, mm) ==
    LET c == Abs(CosThousandths(dot, mm))
        a == 5 * (Cardinality({k \in 1..Len(CosTable) : CosTable[k] > c}))
    IN  IF dot = 0 THEN 90
        ELSE IF dot > 0 THEN Min(a, 89)
        ELSE 180 - Min(a, 89)

\* EdgeAnalyzer.calculateAngleBetweenEdges(edge1, edge2), in degrees.
calculateAngleBetweenEdges(edge1, edge2) ==
    LET sharedVertex == findSharedVertex(edge1, edge2)
        vector1 == Shrunk(getDirectionFromVertex(edge1, sharedVertex))
        vector2 == Shrunk(getDirectionFromVertex(edge2, sharedVertex))
        dot == vector1.x * vector2.x + vector1.y * vector2.y
        mag1 == Hypot(vector1.x, vector1.y)
        mag2 == Hypot(vector2.x, vector2.y)
    IN  IF sharedVertex = null THEN 180
        ELSE IF mag1 = 0 \/ mag2 = 0 THEN 0
        ELSE AcosDegrees(dot, mag1 * mag2)

\* isAcuteAngle with the boundary included.
isAcuteAngleInclusive(angleDegrees) == angleDegrees <= 90

\* EdgeAnalyzer.isAcuteAngle(angleDegrees).
isAcuteAngle(angleDegrees) == angleDegrees < 90

\* The inner loop of analyzeAcuteAngles: acuteConnectionCount of edges[i].
AcuteConnectionCount(es, i) ==
    LET edge == es[i + 1]
        hits == [k \in 1..Len(edge.connectedEdges) |->
                    IF isAcuteAngle(calculateAngleBetweenEdges(
                                        edge, es[edge.connectedEdges[k] + 1]))
                    THEN 1 ELSE 0]
    IN  SumSeq(hits)

\* The pairs <<i, connectedIndex>> the inner loop of analyzeAcuteAngles
\* finds acute.
AcutePairs(es) ==
    {p \in UNION {{<<i, j>> : j \in Range(es[i + 1].connectedEdges)} : i \in 0..(Len(es) - 1)} :
        isAcuteAngle(calculateAngleBetweenEdges(es[p[1] + 1], es[p[2] + 1]))}

\* EdgeAnalyzer.resetEdgeAnalysis(edges).
resetEdgeAnalysis(es) ==
    Array([k \in 1..Len(es) |-> [es[k] EXCEPT !.acuteAngleCount = 0, !.expandValue = 0]])

\* The edges with each count added to the count the edge had.
analyzeAcuteAnglesAdding(es) ==
    Array([k \in 1..Len(es) |->
        [es[k] EXCEPT !.acuteAngleCount = @ + AcuteConnectionCount(es, k - 1)]])

\* The edges as EdgeAnalyzer.analyzeAcuteAngles(edges) leaves them.  The
\* counts are written in index order; an edge read as a neighbour is read
\* only for its endpoints, which the loop does not write.
analyzeAcuteAngles(es) ==
    LET reset == resetEdgeAnalysis(es)
    IN  Array([k \in 1..Len(reset) |->
            [reset[k] EXCEPT !.acuteAngleCount = AcuteConnectionCount(reset, k - 1)]])

\* The results with shrinkingEdgeCount started at one.
AnalysisResultsFromOne(analysed) ==
    LET acute == Cardinality({k \in 1..Len(analysed) : analysed[k].acuteAngleCount > 0})
    IN  [totalEdges |-> Len(analysed),
         acuteEdgeCount |-> acute,
         expandingEdgeCount |-> acute,
         shrinkingEdgeCount |-> Len(analysed) - acute + 1]

\* The statistics analyzeAcuteAngles returns.
AnalysisResults(analysed) ==
    LET acute == Cardinality({k \in 1..Len(analysed) : analysed[k].acuteAngleCount > 0})
    IN  [totalEdges |-> Len(analysed),
         acuteEdgeCount |-> acute,
         expandingEdgeCount |-> acute,
         shrinkingEdgeCount |-> Len(analysed) - acute]

\* The value calculateEdgeValues gives, with the flat shrink also scaled.
EdgeValueScaledShrink(acuteAngleCount, rate) ==
    IF acuteAngleCount > 0 THEN rate * acuteAngleCount
    ELSE -rate * 2

\* The value calculateEdgeValues computes for one edge.
EdgeValue(acuteAngleCount, rate) ==
    IF acuteAngleCount > 0 THEN rate * acuteAngleCount
    ELSE -rate

\* The edges as EdgeAnalyzer.calculateEdgeValues(edges, changeRate) leaves them.
calculateEdgeValues(es, rate) ==
    Array([k \in 1..Len(es) |->
        [es[k] EXCEPT !.expandValue = EdgeValue(es[k].acuteAngleCount, rate)]])

\* The array calculateEdgeValues returns.
EdgeValuesOf(es, rate) ==
    Array([k \in 1..Len(es) |->
        LET value == EdgeValue(es[k].acuteAngleCount, rate)
        IN  [edgeId |-> es[k].id, value |-> value,
             type |-> IF value > 0 THEN "expand" ELSE "shrink"]])

----------------------------------------------------------------------------
(* MeshEvolver *)

\* config.springConstant = 0.3, in tenths.
springConstantTenths == 3

\* config.dampingFactor = 0.85, in hundredths.
dampingFactorHundredths == 85

\* config.timeStep = 0.1, in tenths.
timeStepTenths == 1

\* The bounds -8, 8 and -6, 6 updateVertexPositions wraps to, in length units.
maxX == 8 * 1000000 * Micro

maxY == 6 * 1000000 * Micro

\* MeshEvolver.getVertexKey(vertex).
getVertexKey(vertex) == <<toFixed6(vertex.x), toFixed6(vertex.y)>>

\* A coordinate left where the integration put it.
wrapCoordinateOff(coord, min, max) == coord

\* A coordinate held at the border it has passed.
wrapCoordinateClamped(coord, min, max) ==
    IF coord < min THEN min ELSE IF coord > max THEN max ELSE coord

\* MeshEvolver.wrapCoordinate(coord, min, max).
wrapCoordinate(coord, min, max) ==
    LET range == max - min
    IN  IF coord < min THEN coord + range
        ELSE IF coord > max THEN coord - range
        ELSE coord

\* !x for a length: true of an absent property and of 0.
Falsy(x) == x = undefined \/ x = 0

\* valueMap.get(edge.id) || 0 of updateRestLengths: the value of the last
\* entry set for that id, 0 when there is none.
EvolutionValue(edgeValues, id) ==
    LET at == {k \in 1..Len(edgeValues) : edgeValues[k].edgeId = id}
    IN  IF at = {} THEN 0
        ELSE edgeValues[CHOOSE k \in at : \A j \in at : j <= k].value

\* updateRestLengths for one edge, with the baseline taken afresh every time.
RestLengthsOfEdgeFresh(edge, evolutionValue) ==
    [edge EXCEPT !.originalLength = edge.length,
                 !.targetLength = MulDiv(edge.length, 100 + evolutionValue, 100)]

\* The body of the loop of updateRestLengths for one edge:
\* targetLength = originalLength * (1 + evolutionValue / 100).
RestLengthsOfEdge(edge, evolutionValue) ==
    LET originalLength == IF Falsy(edge.originalLength) THEN edge.length
                          ELSE edge.originalLength
    IN  [edge EXCEPT !.originalLength = originalLength,
                     !.targetLength = MulDiv(originalLength, 100 + evolutionValue, 100)]

\* MeshEvolver.updateRestLengths(edges, edgeValues).
updateRestLengths(es, edgeValues) ==
    Array([k \in 1..Len(es) |-> RestLengthsOfEdge(es[k], EvolutionValue(edgeValues, es[k].id))])

\* A vertex object is the start or the end object of one edge: every edge
\* is created with two objects of its own.
EndpointRefs(es) ==
    Flatten([k \in 1..Len(es) |-> << <<k, "start">>, <<k, "end">> >>])

VertexAt(es, ref) == IF ref[2] = "start" THEN es[ref[1]].start ELSE es[ref[1]].end

\* The first loop of applySpringForcesToEdges: one zero accumulator per
\* vertex key, holding the first vertex object found with that key.
InitialForces(es) ==
    LET refs == EndpointRefs(es)
        keyOf(i) == getVertexKey(VertexAt(es, refs[i]))
        keys == {keyOf(i) : i \in 1..Len(refs)}
        first(key) == CHOOSE i \in 1..Len(refs) :
                         /\ keyOf(i) = key
                         /\ \A j \in 1..Len(refs) : keyOf(j) = key => i <= j
    IN  MapOf([key \in keys |-> [x |-> 0, y |-> 0, vertex |-> refs[first(key)]]])

\* edge.targetLength || edge.length.
TargetOf(edge) == IF Falsy(edge.targetLength) THEN edge.length ELSE edge.targetLength

\* forceX, forceY with the magnitude taken from the target to the length.
EdgeForceFromTarget(edge) ==
    LET dx == edge.end.x - edge.start.x
        dy == edge.end.y - edge.start.y
        currentLength == Hypot(dx, dy)
        forceMagnitude == springConstantTenths * (TargetOf(edge) - currentLength)
    IN  IF currentLength = 0 THEN [x |-> 0, y |-> 0]
        ELSE [x |-> MulDiv(dx, forceMagnitude, currentLength),
              y |-> MulDiv(dy, forceMagnitude, currentLength)]

\* forceX, forceY of one edge, in tenths of a unit; nothing for a
\* zero-length edge (currentLength === 0: continue).
EdgeForce(edge) ==
    LET dx == edge.end.x - edge.start.x
        dy == edge.end.y - edge.start.y
        currentLength == Hypot(dx, dy)
        forceMagnitude == springConstantTenths * (currentLength - TargetOf(edge))
    IN  IF currentLength = 0 THEN [x |-> 0, y |-> 0]
        ELSE [x |-> MulDiv(dx, forceMagnitude, currentLength),
              y |-> MulDiv(dy, forceMagnitude, currentLength)]

\* The four accumulator updates with the end vertex pulled the same way.
ApplyEdgeForceSameWay(vf, startKey, endKey, force) ==
    LET afterStart == [vf EXCEPT ![startKey].x = @ + force.x, ![startKey].y = @ + force.y]
    IN  [afterStart EXCEPT ![endKey].x = @ + force.x, ![endKey].y = @ + force.y]

\* The four accumulator updates with the force taken from the start vertex
\* and given to the end vertex.
ApplyEdgeForceToEnd(vf, startKey, endKey, force) ==
    LET afterStart == [vf EXCEPT ![startKey].x = @ - force.x, ![startKey].y = @ - force.y]
    IN  [afterStart EXCEPT ![endKey].x = @ + force.x, ![endKey].y = @ + force.y]

\* startForce.x += forceX; startForce.y += forceY;
\* endForce.x -= forceX; endForce.y -= forceY.
ApplyEdgeForce(vf, startKey, endKey, force) ==
    LET afterStart == [vf EXCEPT ![startKey].x = @ + force.x, ![startKey].y = @ + force.y]
    IN  [afterStart EXCEPT ![endKey].x = @ - force.x, ![endKey].y = @ - force.y]

\* The second loop of applySpringForcesToEdges, from edge k on.
RECURSIVE ForceLoop(_, _, _)
ForceLoop(es, k, vf) ==
    IF k > Len(es) THEN vf
    ELSE LET edge == es[k]
             dx == edge.end.x - edge.start.x
             dy == edge.end.y - edge.start.y
         IN  IF Hypot(dx, dy) = 0 THEN ForceLoop(es, k + 1, vf)
             ELSE ForceLoop(es, k + 1,
                    ApplyEdgeForce(vf, getVertexKey(edge.start),
                                   getVertexKey(edge.end), EdgeForce(edge)))

\* vertexForces as the two loops leave it.
VertexForces(es) == ForceLoop(es, 1, InitialForces(es))

\* The velocity updateVertexPositions starts from for a key.
StartVelocity(store, vertexKey) ==
    IF vertexKey \in DOMAIN store THEN store[vertexKey] ELSE [x |-> 0, y |-> 0]

\* The velocity damped first and the force added afterwards.
NextVelocityDampedFirst(v, f) ==
    MulDiv(v, dampingFactorHundredths, 100) + RDiv(f * timeStepTenths, 10)

\* velocity += force * timeStep; velocity *= dampingFactor (one component,
\* in tenths of a unit).
NextVelocity(v, f) ==
    MulDiv(v + RDiv(f * timeStepTenths, 10), dampingFactorHundredths, 100)

\* vertex += velocity * timeStep, then wrapped (one coordinate, in units).
NextCoordinate(c, v, max) ==
    wrapCoordinate(c + RDiv(v * timeStepTenths, 100), -max, max)

\* The velocity store after updateVertexPositions(vertexForces).
VelocitiesAfter(store, vf) ==
    MapOf([key \in DOMAIN vf |->
              [x |-> NextVelocity(StartVelocity(store, key).x, vf[key].x),
               y |-> NextVelocity(StartVelocity(store, key).y, vf[key].y)]])
    @@ store

\* A vertex object after updateVertexPositions: moved when an accumulator
\* holds it, left alone otherwise.
VertexAfter(es, ref, vf, after) ==
    LET holding == {key \in DOMAIN vf : vf[key].vertex = ref}
        vertex == VertexAt(es, ref)
    IN  IF holding = {} THEN vertex
        ELSE LET key == CHOOSE key \in holding : TRUE
             IN  [x |-> NextCoordinate(vertex.x, after[key].x, maxX),
                  y |-> NextCoordinate(vertex.y, after[key].y, maxY)]

\* The edges after updateVertexPositions, each with the length it had.
EdgesAfterForcesStale(es, vf, after) ==
    Array([k \in 1..Len(es) |->
        [es[k] EXCEPT !.start = VertexAfter(es, <<k, "start">>, vf, after),
                      !.end = VertexAfter(es, <<k, "end">>, vf, after)]])

\* The edges after updateVertexPositions and the loop that refreshes
\* edge.length.
EdgesAfterForces(es, vf, after) ==
    Array([k \in 1..Len(es) |->
        LET start == VertexAfter(es, <<k, "start">>, vf, after)
            end == VertexAfter(es, <<k, "end">>, vf, after)
        IN  [es[k] EXCEPT !.start = start, !.end = end,
                          !.length = Hypot(end.x - start.x, end.y - start.y)]])

----------------------------------------------------------------------------
(* The meshes the partition source hands over *)

MkCells(polygons) ==
    Array([k \in 1..Len(polygons) |-> [id |-> k - 1, polygon |-> polygons[k]]])

\* One quad cell, a square.
SquareMesh == MkCells(<< << <<0, 0>>, <<20000, 0>>, <<20000, 20000>>, <<0, 20000>> >> >>)

\* Two triangles on the two sides of the edge (0,0)-(20000,0), which they
\* traverse in opposite directions; that edge has three acute neighbours
\* and a perpendicular one.
TwoTriangleMesh ==
    MkCells(<< << <<0, 0>>, <<20000, 0>>, <<10000, 16000>> >>,
               << <<0, 0>>, <<20000, -16000>>, <<20000, 0>> >> >>)

\* The two triangles and, apart from them, a square.
TrianglesAndSquareMesh ==
    MkCells(<< << <<0, 0>>, <<20000, 0>>, <<10000, 16000>> >>,
               << <<0, 0>>, <<20000, -16000>>, <<20000, 0>> >>,
               << <<-40000, 0>>, <<-20000, 0>>, <<-20000, 20000>>, <<-40000, 20000>> >> >>)

\* A right isosceles triangle: 45, 90 and 45 degrees.
RightTriangleMesh == MkCells(<< << <<0, 0>>, <<20000, 0>>, <<20000, 20000>> >> >>)

\* A quad with three collinear vertices: a straight angle at (10000,0), a
\* right angle at (20000,0) and 45 degrees at the other two vertices.
CollinearMesh ==
    MkCells(<< << <<0, 0>>, <<10000, 0>>, <<20000, 0>>, <<20000, 20000>> >> >>)

\* A closed ring, the first vertex repeated at the end.
ClosedRingMesh ==
    MkCells(<< << <<0, 0>>, <<20000, 0>>, <<10000, 16000>>, <<0, 0>> >> >>)

\* Two cells on the two sides of a nearly vertical edge, whose endpoints
\* the two cells hold with coordinates that differ below 1e-6.
NearVerticalMesh ==
    MkCells(<< << <<0, 0>>, <<1, 20000>>, <<-18000, 10000>> >>,
               << <<0, 20000>>, <<1, 0>>, <<18000, 10000>> >> >>)

\* Three closed rings around the vertex (0,0), each starting there.
ThreeRingsMesh ==
    MkCells(<< << <<0, 0>>, <<16000, 0>>, <<-8000, 12000>>, <<0, 0>> >>,
               << <<0, 0>>, <<-8000, 12000>>, <<-8000, -12000>>, <<0, 0>> >>,
               << <<0, 0>>, <<-8000, -12000>>, <<16000, 0>>, <<0, 0>> >> >>)

\* A triangle with one side shorter than 1e-6.
SliverMesh == MkCells(<< << <<0, 0>>, <<1, 0>>, <<10000, 16000>> >> >>)

\* A degenerate polygon of two vertices: one edge on its own.
DigonMesh == MkCells(<< << <<0, 0>>, <<20000, 0>> >> >>)

\* No cell at all.
EmptyMesh == << >>

Meshes == {SquareMesh, TwoTriangleMesh, TrianglesAndSquareMesh, RightTriangleMesh,
           CollinearMesh, ClosedRingMesh, ThreeRingsMesh, NearVerticalMesh,
           SliverMesh, DigonMesh, EmptyMesh}

\* The values the changeRate slider is moved to.
ChangeRates == {5, 10}

----------------------------------------------------------------------------
(* VoronoiMesh: the render buffers *)

\* The positions createCellMesh and updateCellVertices write: the polygon
\* vertices of every cell with at least 3 of them.
CellVertices(cs) ==
    Flatten([k \in 1..Len(cs) |->
        IF Len(cs[k].polygon) < 3 THEN << >> ELSE cs[k].polygon])

----------------------------------------------------------------------------
(* AcuteEdgeVoronoiApp *)

NoStep == [rate |-> 0, analysis |-> AnalysisResults(<< >>), acutePairs |-> {},
           valued |-> << >>, edgeValues |-> << >>, rested |-> << >>,
           forces |-> << >>]

NoPre == [edges |-> << >>, vertexVelocities |-> << >>, step |-> NoStep]

\* What the first regenerateMesh() of init() leaves of the mesh, on the
\* cells the partition source produced, and the fresh MeshEvolver.
MeshLoaded(meshes) ==
    /\ cells \in meshes
    /\ edges = extractEdgeData(cells)
    /\ cellPositions = CellVertices(cells)
    /\ vertexVelocities = << >>
    /\ generation = 0
    /\ pre = NoPre
    /\ step = NoStep
    /\ ticks = 0

\* regenerateMesh() with the generation counter left as it is.
regenerateMeshKeepsCount(mesh) ==
    /\ cells' = mesh
    /\ edges' = extractEdgeData(mesh)
    /\ cellPositions' = CellVertices(mesh)
    /\ pre' = NoPre
    /\ step' = NoStep
    /\ UNCHANGED <<generation, vertexVelocities, isEvolutionRunning, evolutionTimer,
                   timers, changeRate, ticks>>

\* AcuteEdgeVoronoiApp.regenerateMesh() with VoronoiMesh.generate(cellCount).
regenerateMesh(mesh) ==
    /\ generation' = 0
    /\ cells' = mesh
    /\ edges' = extractEdgeData(mesh)
    /\ cellPositions' = CellVertices(mesh)
    /\ pre' = NoPre
    /\ step' = NoStep
    /\ UNCHANGED <<vertexVelocities, isEvolutionRunning, evolutionTimer, timers,
                   changeRate, ticks>>

\* startEvolution() without the test of isEvolutionRunning.
startEvolutionAnyway ==
    /\ isEvolutionRunning' = TRUE
    /\ LET id == CHOOSE n \in 1..(Cardinality(timers) + 1) : n \notin timers
       IN  /\ timers' = timers \cup {id}
           /\ evolutionTimer' = id
    /\ UNCHANGED <<cells, edges, cellPositions, vertexVelocities, generation,
                   changeRate, pre, step, ticks>>

\* AcuteEdgeVoronoiApp.startEvolution().
startEvolution ==
    /\ ~isEvolutionRunning
    /\ isEvolutionRunning' = TRUE
    /\ LET id == CHOOSE n \in 1..(Cardinality(timers) + 1) : n \notin timers
       IN  /\ timers' = timers \cup {id}
           /\ evolutionTimer' = id
    /\ UNCHANGED <<cells, edges, cellPositions, vertexVelocities, generation,
                   changeRate, pre, step, ticks>>

\* pauseEvolution() with the interval left running.
pauseEvolutionLeavesTimer ==
    /\ isEvolutionRunning
    /\ isEvolutionRunning' = FALSE
    /\ UNCHANGED <<cells, edges, cellPositions, vertexVelocities, generation,
                   evolutionTimer, timers, changeRate, pre, step, ticks>>

\* AcuteEdgeVoronoiApp.pauseEvolution().
pauseEvolution ==
    /\ isEvolutionRunning
    /\ isEvolutionRunning' = FALSE
    /\ IF evolutionTimer # 0
       THEN timers' = timers \ {evolutionTimer} /\ evolutionTimer' = 0
       ELSE UNCHANGED <<timers, evolutionTimer>>
    /\ UNCHANGED <<cells, edges, cellPositions, vertexVelocities, generation,
                   changeRate, pre, step, ticks>>

\* The input listeners of the changeRate slider and number field.
setChangeRate(rate) ==
    /\ changeRate # rate
    /\ changeRate' = rate
    /\ UNCHANGED <<cells, edges, cellPositions, vertexVelocities, generation,
                   isEvolutionRunning, evolutionTimer, timers, pre, step, ticks>>

\* AcuteEdgeVoronoiApp.evolveOneGeneration(), called by a live interval
\* timer: analyzeAcuteAngles, calculateEdgeValues, then
\* MeshEvolver.applyEdgeValues (updateRestLengths, applySpringForcesToEdges,
\* updateMesh).  No more than limit generations are followed.
Generation(limit) ==
    /\ timers # {}
    /\ ticks < limit
    /\ LET analysed == analyzeAcuteAngles(edges)
           valued == calculateEdgeValues(analysed, changeRate)
           edgeValues == EdgeValuesOf(analysed, changeRate)
           rested == updateRestLengths(valued, edgeValues)
           vertexForces == VertexForces(rested)
           after == VelocitiesAfter(vertexVelocities, vertexForces)
       IN  /\ generation' = generation + 1
           /\ edges' = EdgesAfterForces(rested, vertexForces, after)
           /\ vertexVelocities' = after
           /\ cellPositions' = CellVertices(cells)
           /\ pre' = [edges |-> edges, vertexVelocities |-> vertexVelocities,
                      step |-> step]
           /\ step' = [rate |-> changeRate,
                       analysis |-> AnalysisResults(analysed),
                       acutePairs |-> AcutePairs(resetEdgeAnalysis(edges)),
                       valued |-> valued,
                       edgeValues |-> edgeValues,
                       rested |-> rested,
                       forces |-> vertexForces]
    /\ ticks' = ticks + 1
    /\ UNCHANGED <<cells, isEvolutionRunning, evolutionTimer, timers, changeRate>>

evolveOneGeneration == Generation(MaxGen)

\* MeshEvolver.applyEdgeValues(voronoiMesh, edgeValues) called on its own,
\* with a list that gives every edge the same value: updateRestLengths,
\* applySpringForcesToEdges, updateMesh.
applyEdgeValues(value) ==
    /\ ticks < MaxGen
    /\ LET edgeValues == Array([k \in 1..Len(edges) |->
                             [edgeId |-> edges[k].id, value |-> value,
                              type |-> IF value > 0 THEN "expand" ELSE "shrink"]])
           rested == updateRestLengths(edges, edgeValues)
           vertexForces == VertexForces(rested)
           after == VelocitiesAfter(vertexVelocities, vertexForces)
       IN  /\ edges' = EdgesAfterForces(rested, vertexForces, after)
           /\ vertexVelocities' = after
           /\ cellPositions' = CellVertices(cells)
           /\ pre' = [edges |-> edges, vertexVelocities |-> vertexVelocities,
                      step |-> step]
           /\ step' = [rate |-> changeRate,
                       analysis |-> AnalysisResults(<< >>),
                       acutePairs |-> {},
                       valued |-> edges,
                       edgeValues |-> edgeValues,
                       rested |-> rested,
                       forces |-> vertexForces]
    /\ ticks' = ticks + 1
    /\ UNCHANGED <<cells, generation, isEvolutionRunning, evolutionTimer, timers,
                   changeRate>>

----------------------------------------------------------------------------
(* The generations of one mesh: the page loaded and started, the timer     *)
(* ticking, the rate slider moved in between.                              *)

InitStep ==
    /\ MeshLoaded(Meshes)
    /\ isEvolutionRunning = TRUE
    /\ evolutionTimer = 1
    /\ timers = {1}
    /\ changeRate \in ChangeRates

NextStep ==
    \/ evolveOneGeneration
    \/ \E rate \in ChangeRates : setChangeRate(rate)

SpecStep == InitStep /\ [][NextStep]_vars

----------------------------------------------------------------------------
(* The application: the page loaded, then any clicks and timer ticks.      *)

\* The meshes the model regenerates to.
AppMeshes == {SquareMesh, TwoTriangleMesh}

\* The state new AcuteEdgeVoronoiApp() leaves: the constructor's fields and
\* init() with its first regenerateMesh().
Init ==
    /\ MeshLoaded(AppMeshes)
    /\ isEvolutionRunning = FALSE
    /\ evolutionTimer = 0
    /\ timers = {}
    /\ changeRate = 5

Next ==
    \/ \E mesh \in AppMeshes : regenerateMesh(mesh)
    \/ startEvolution
    \/ pauseEvolution
    \/ \E rate \in ChangeRates : setChangeRate(rate)
    \/ evolveOneGeneration

Spec == Init /\ [][Next]_vars

----------------------------------------------------------------------------
(* Mesh construction alone: the page loaded, then "Regenerate Mesh"        *)
(* clicked on one partition after another.                                 *)

\* The vertices the partitions are drawn over: the two ends of a nearly
\* vertical edge, each held twice with coordinates less than 1e-6 apart,
\* and a vertex to its left and one to its right.
GraphPoints ==
    {<<0, 0>>, <<1, 0>>, <<1, 40000>>, <<0, 40000>>, <<-50000, 20000>>, <<50000, 20000>>}

\* The triangles over these vertices, in every winding and starting vertex.
GraphTriangles ==
    {<<a, b, c>> : a, b, c \in GraphPoints} \ {t \in GraphPoints \X GraphPoints \X GraphPoints :
                                                  t[1] = t[2] \/ t[2] = t[3] \/ t[1] = t[3]}

\* The triangle to the left of the nearly vertical edge.
LeftTriangle == << <<0, 0>>, <<1, 40000>>, <<-50000, 20000>> >>

\* The partitions: the left triangle and any triangle, in either cell order.
GraphMeshes ==
    {MkCells(<<LeftTriangle, t>>) : t \in GraphTriangles}
        \cup {MkCells(<<t, LeftTriangle>>) : t \in GraphTriangles}

InitGraph ==
    /\ MeshLoaded(GraphMeshes)
    /\ isEvolutionRunning = FALSE
    /\ evolutionTimer = 0
    /\ timers = {}
    /\ changeRate = 5

NextGraph == \E mesh \in GraphMeshes : regenerateMesh(mesh)

SpecGraph == InitGraph /\ [][NextGraph]_vars

----------------------------------------------------------------------------
(* A long run: the page loaded, started and left running.                  *)

\* The generations followed.
LongGen == 1000

\* A right triangle in the upper right corner of the domain, its legs on
\* the two borders.
CornerMesh ==
    MkCells(<< << <<maxX, maxY>>, <<maxX - 20000, maxY>>, <<maxX, maxY - 20000>> >> >>)

LongMeshes == {SquareMesh, TrianglesAndSquareMesh, CornerMesh}

\* The largest rate the slider offers.
LongRates == {20}

InitLong ==
    /\ MeshLoaded(LongMeshes)
    /\ isEvolutionRunning = TRUE
    /\ evolutionTimer = 1
    /\ timers = {1}
    /\ changeRate \in LongRates

NextLong == Generation(LongGen)

SpecLong == InitLong /\ [][NextLong]_vars

----------------------------------------------------------------------------
(* The evolver alone: steps of MeshEvolver on one edge on its own, in the  *)
(* middle of the domain and at its borders.                                *)

\* The length of the edges.
EdgeLength == 20000

Isolated(x1, y1, x2, y2) == MkCells(<< << <<x1, y1>>, <<x2, y2>> >> >>)

\* One edge each: in the middle, along x and oblique; ending just inside the
\* right, the left, the upper and the lower border; ending on the right
\* border; lying on the right border; lying on the left border.  Last, two
\* edges apart from each other, one at the right and one at the left border.
EvolverMeshes ==
    {Isolated(0, 0, EdgeLength, 0),
     Isolated(0, 0, 12000, 16000),
     Isolated(maxX - EdgeLength - 3, 0, maxX - 3, 0),
     Isolated(3 - maxX, 0, EdgeLength + 3 - maxX, 0),
     Isolated(0, maxY - EdgeLength - 3, 0, maxY - 3),
     Isolated(0, 3 - maxY, 0, EdgeLength + 3 - maxY),
     Isolated(maxX - EdgeLength, 0, maxX, 0),
     Isolated(maxX, 0, maxX, EdgeLength),
     Isolated(-maxX, 0, -maxX, EdgeLength),
     MkCells(<< << <<maxX - EdgeLength - 3, 0>>, <<maxX - 3, 0>> >>,
                << <<3 - maxX, 2 * EdgeLength>>,
                   <<EdgeLength + 3 - maxX, 2 * EdgeLength>> >> >>)}

\* The values the lists give: shrink, keep, expand a little, expand more.
EvolutionValues == {-5, 0, 5, 15}

InitEvolver ==
    /\ MeshLoaded(EvolverMeshes)
    /\ isEvolutionRunning = FALSE
    /\ evolutionTimer = 0
    /\ timers = {}
    /\ changeRate = 5

NextEvolver == \E value \in EvolutionValues : applyEdgeValues(value)

SpecEvolver == InitEvolver /\ [][NextEvolver]_vars

----------------------------------------------------------------------------
(* Properties of mesh construction *)

\* A coordinate to six decimals, as a number.
SixDecimals(c) == Sign(c) * ((2 * Abs(c) + Micro) \div (2 * Micro))

\* The physical edge between two points: the unordered pair of its
\* endpoints, each to six decimals.
PhysicalEdge(x1, y1, x2, y2) ==
    {<<SixDecimals(x1), SixDecimals(y1)>>, <<SixDecimals(x2), SixDecimals(y2)>>}

PhysicalEdgeOfSide(side) ==
    PhysicalEdge(side.start[1], side.start[2], side.end[1], side.end[2])

PhysicalEdgeOfEdge(edge) ==
    PhysicalEdge(edge.start.x, edge.start.y, edge.end.x, edge.end.y)

\* C1: whatever the order of the cells and the winding of each, every
\* physical edge of the cell polygons (an unordered pair of endpoint
\* coordinates) appears exactly once in the edge list.
C1_EachPhysicalEdgeOnce ==
    \A side \in Range(AllSides(cells)) :
        Cardinality({k \in 1..Len(edges) :
                        PhysicalEdgeOfEdge(edges[k]) = PhysicalEdgeOfSide(side)}) = 1

\* Edge index b is listed by edge index a.
Lists(a, b) == b \in Range(edges[a + 1].connectedEdges)

\* C2: after findConnectedEdges no edge lists its own index, and B is in
\* A.connectedEdges if and only if A is in B.connectedEdges.
C2_ConnectivitySymmetric ==
    \A a, b \in 0..(Len(edges) - 1) :
        /\ ~Lists(a, a)
        /\ Lists(a, b) <=> Lists(b, a)

\* C2 witness: a mesh in which some pair of edges is connected, some pair
\* is not, and some edge has neighbours at both of its ends.
C2_Witness ==
    /\ \E a, b \in 0..(Len(edges) - 1) : a # b /\ Lists(a, b) /\ Lists(b, a)
    /\ \E a, b \in 0..(Len(edges) - 1) : a # b /\ ~Lists(a, b) /\ ~Lists(b, a)
    /\ \E k \in 1..Len(edges) :
          /\ getGridKey(edges[k].start) # getGridKey(edges[k].end)
          /\ \E j \in 1..Len(edges) : j # k /\ getGridKey(edges[j].start) = getGridKey(edges[k].end)
          /\ \E j \in 1..Len(edges) : j # k /\ getGridKey(edges[j].end) = getGridKey(edges[k].start)

----------------------------------------------------------------------------
(* Properties of one generation *)

RECURSIVE SumOf(_, _)
\* The sum of f over the finite set S.
SumOf(S, f) ==
    IF S = {} THEN 0
    ELSE LET a == CHOOSE a \in S : TRUE
         IN  f[a] + SumOf(S \ {a}, f)

Ends == {"start", "end"}

EndOf(edge, which) == IF which = "start" THEN edge.start ELSE edge.end

FarEndOf(edge, which) == IF which = "start" THEN edge.end ELSE edge.start

\* C3: calculateEdgeValues gives every edge expandValue = changeRate *
\* acuteAngleCount when the count is positive and -changeRate when it is 0,
\* whatever the number of its connections; the returned entries agree.
C3_ExpandValueRule ==
    ticks > 0 =>
        /\ Len(step.edgeValues) = Len(edges)
        /\ \A k \in 1..Len(edges) :
              LET count == edges[k].acuteAngleCount
                  expected == IF count > 0 THEN step.rate * count ELSE -step.rate
              IN  /\ count >= 0
                  /\ edges[k].expandValue = expected
                  /\ step.edgeValues[k].edgeId = edges[k].id
                  /\ step.edgeValues[k].value = expected

\* C3 witness: at rate 5 an edge with count 3 has value 15, and two edges
\* with count 0 and different numbers of connections both have value -5.
C3_Witness ==
    /\ ticks > 0
    /\ step.rate = 5
    /\ \E k \in 1..Len(edges) :
          edges[k].acuteAngleCount = 3 /\ edges[k].expandValue = 15
    /\ \E j, k \in 1..Len(edges) :
          /\ edges[j].acuteAngleCount = 0 /\ edges[k].acuteAngleCount = 0
          /\ Len(edges[j].connectedEdges) # Len(edges[k].connectedEdges)
          /\ edges[j].expandValue = -5 /\ edges[k].expandValue = -5

\* An edge longer than the tolerance that tells its two ends apart.
NonDegenerate(edge) == ~pointsEqual(edge.start, edge.end)

\* The dot product of the directions of e1 and e2 away from the ends w1
\* of e1 and w2 of e2.
DotAway(e1, w1, e2, w2) ==
    (FarEndOf(e1, w1).x - EndOf(e1, w1).x) * (FarEndOf(e2, w2).x - EndOf(e2, w2).x)
    + (FarEndOf(e1, w1).y - EndOf(e1, w1).y) * (FarEndOf(e2, w2).y - EndOf(e2, w2).y)

\* The pairs the analysis of the last step examined that are non-degenerate
\* and share a vertex: <<i, j, w1, w2>>, end w1 of edge index i coinciding
\* with end w2 of its connected edge index j.
SharingPairs ==
    {q \in (0..(Len(pre.edges) - 1)) \X (0..(Len(pre.edges) - 1)) \X Ends \X Ends :
        /\ q[2] \in Range(pre.edges[q[1] + 1].connectedEdges)
        /\ NonDegenerate(pre.edges[q[1] + 1])
        /\ NonDegenerate(pre.edges[q[2] + 1])
        /\ pointsEqual(EndOf(pre.edges[q[1] + 1], q[3]), EndOf(pre.edges[q[2] + 1], q[4]))}

\* C4: two non-degenerate edges that share a vertex are classified acute
\* if and only if the dot product of their directions away from the shared
\* vertex is positive, that is the angle between them is below 90 degrees.
C4_AcuteIffPositiveDot ==
    ticks > 0 =>
        \A q \in SharingPairs :
            <<q[1], q[2]>> \in step.acutePairs
                <=> DotAway(pre.edges[q[1] + 1], q[3], pre.edges[q[2] + 1], q[4]) > 0

\* C4 witness: one analysis met a perpendicular pair (not acute), a pair at
\* 45 degrees, directions (1,0) and (1,1) (acute), and an opposite pair,
\* directions (1,0) and (-1,0) (not acute).
C4_Witness ==
    /\ ticks > 0
    /\ \E q \in SharingPairs :
          /\ DotAway(pre.edges[q[1] + 1], q[3], pre.edges[q[2] + 1], q[4]) = 0
          /\ <<q[1], q[2]>> \notin step.acutePairs
    /\ \E q \in SharingPairs :
          LET e1 == pre.edges[q[1] + 1]
              e2 == pre.edges[q[2] + 1]
          IN  /\ FarEndOf(e1, q[3]).y = EndOf(e1, q[3]).y
              /\ FarEndOf(e1, q[3]).x > EndOf(e1, q[3]).x
              /\ FarEndOf(e2, q[4]).x - EndOf(e2, q[4]).x = FarEndOf(e2, q[4]).y - EndOf(e2, q[4]).y
              /\ FarEndOf(e2, q[4]).x > EndOf(e2, q[4]).x
              /\ <<q[1], q[2]>> \in step.acutePairs
    /\ \E q \in SharingPairs :
          LET e1 == pre.edges[q[1] + 1]
              e2 == pre.edges[q[2] + 1]
          IN  /\ FarEndOf(e1, q[3]).y = EndOf(e1, q[3]).y
              /\ FarEndOf(e2, q[4]).y = EndOf(e2, q[4]).y
              /\ FarEndOf(e1, q[3]).x > EndOf(e1, q[3]).x
              /\ FarEndOf(e2, q[4]).x < EndOf(e2, q[4]).x
              /\ <<q[1], q[2]>> \notin step.acutePairs

\* The vertex objects of the mesh: the two ends of every edge.
Refs == Range(EndpointRefs(edges))

\* The vertex object moved in the last step.
Moved(ref) == VertexAt(edges, ref) # VertexAt(pre.edges, ref)

\* C5: after a MeshEvolver step any two edge endpoints that coincided
\* before the step coincide after it: a shared vertex moves as one point.
C5_SharedVertexMovesAsOne ==
    ticks > 0 =>
        \A r1, r2 \in Refs :
            VertexAt(pre.edges, r1) = VertexAt(pre.edges, r2)
                => VertexAt(edges, r1) = VertexAt(edges, r2)

\* C6: after a MeshEvolver step has moved an edge endpoint, every cell
\* polygon bounded by the edge, read again, has a vertex at the endpoint's
\* new position.
C6_CellPolygonsFollowEdges ==
    ticks > 0 =>
        \A ref \in Refs :
            Moved(ref) =>
                \A c \in Range(edges[ref[1]].connectedCells) :
                    <<VertexAt(edges, ref).x, VertexAt(edges, ref).y>>
                        \in Range(cells[c + 1].polygon)

\* Twice the sum of the x and of the y coordinates of the edge midpoints.
CentreSum(es) ==
    <<SumOf(1..Len(es), [k \in 1..Len(es) |-> es[k].start.x + es[k].end.x]),
      SumOf(1..Len(es), [k \in 1..Len(es) |-> es[k].start.y + es[k].end.y])>>

\* The analysis part of C7: the four edges of the square have count 0 and
\* value -changeRate, and a target shorter than their length.
SquareAnalysed ==
    /\ Len(edges) = 4
    /\ \A k \in 1..Len(edges) :
          /\ Len(edges[k].connectedEdges) = 2
          /\ edges[k].acuteAngleCount = 0
          /\ edges[k].expandValue = -step.rate
          /\ step.rested[k].targetLength < step.rested[k].length

\* The four edges are equally shorter than they were.
SquareContractedUniformly ==
    /\ \A k \in 1..Len(edges) : edges[k].length < pre.edges[k].length
    /\ \A j, k \in 1..Len(edges) : edges[j].length = edges[k].length

\* The centre of the edges is where it was.
CentreFixed == CentreSum(edges) = CentreSum(pre.edges)

\* C7: for the single square cell the analysis gives count 0 and value
\* -changeRate on all four edges, and one step gives them a shorter target,
\* makes all four equally shorter and leaves the centre in place.
C7_SquareEndToEnd ==
    (cells = SquareMesh /\ ticks = 1) =>
        SquareAnalysed /\ SquareContractedUniformly /\ CentreFixed

\* The edges of non-zero length among es.
NonZero(es) == {k \in 1..Len(es) : es[k].start # es[k].end}

\* One component of what the edges of non-zero length add to the
\* accumulator of a key: +force as a start vertex, -force as an end vertex.
NetForce(es, key, component) ==
    SumOf({k \in NonZero(es) : getVertexKey(es[k].start) = key},
          [k \in 1..Len(es) |-> EdgeForce(es[k])[component]])
    - SumOf({k \in NonZero(es) : getVertexKey(es[k].end) = key},
            [k \in 1..Len(es) |-> EdgeForce(es[k])[component]])

\* C8: every edge of non-zero length adds a force to its start accumulator
\* and the exact negative to its end accumulator, a zero-length edge adds
\* nothing, so the accumulated forces sum to zero; the two endpoint forces
\* of an isolated edge are exact negatives.
C8_ForcesSumToZero ==
    ticks > 0 =>
        LET forces == step.forces
            es == step.rested
        IN  /\ \A component \in {"x", "y"} :
                  /\ SumOf(DOMAIN forces,
                           [key \in DOMAIN forces |-> forces[key][component]]) = 0
                  /\ \A key \in DOMAIN forces :
                        forces[key][component] = NetForce(es, key, component)
            /\ Len(es) = 1 =>
                  /\ forces[getVertexKey(es[1].start)].x = -forces[getVertexKey(es[1].end)].x
                  /\ forces[getVertexKey(es[1].start)].y = -forces[getVertexKey(es[1].end)].y

\* C8 witness: a step in which a zero-length edge lay between edges that
\* pulled at their endpoints.
C8_Witness ==
    /\ ticks > 0
    /\ \E k \in 1..Len(step.rested) : k \notin NonZero(step.rested)
    /\ \E key \in DOMAIN step.forces : step.forces[key].x # 0 /\ step.forces[key].y # 0

\* The baseline updateRestLengths keeps for an edge: its length when the
\* baseline is unset or zero, the baseline it has otherwise.
KeptBaseline(edge) ==
    IF edge.originalLength = undefined \/ edge.originalLength = 0
    THEN edge.length ELSE edge.originalLength

C10_VelocityPersists ==
    ticks >= 2 =>
        \A key \in DOMAIN step.forces : \A key0 \in DOMAIN pre.step.forces :
            pre.step.forces[key0].vertex = step.forces[key].vertex
                => StartVelocity(pre.vertexVelocities, key) = pre.vertexVelocities[key0]

----------------------------------------------------------------------------
(* Properties of the application's controls *)

\* The mesh is as regenerateMesh (or the page load) left it: no generation
\* has run on it.
FreshMesh == pre = NoPre

\* C11: after regenerateMesh no velocity state from before the regeneration
\* remains: the velocity store is empty, and the first generation on the new
\* mesh starts every vertex from zero velocity.
C11_RegenerateDiscardsState ==
    /\ FreshMesh => DOMAIN vertexVelocities = {}
    /\ (generation = 1 /\ pre.step = NoStep /\ pre.edges # << >>) =>
          \A key \in DOMAIN step.forces :
              StartVelocity(pre.vertexVelocities, key) = [x |-> 0, y |-> 0]

\* The state of the evolution: the counter, the mesh and the velocity store.
evolutionState == <<generation, cells, edges, cellPositions, vertexVelocities>>

\* C12: while the evolution is paused no interval is live and no generation
\* runs; the step that pauses and the step that starts again leave the
\* generation counter, the edges, the positions and the velocity store as
\* they were.
C12_PausePreservesState ==
    /\ [](~isEvolutionRunning => timers = {} /\ evolutionTimer = 0)
    /\ [][~isEvolutionRunning => ticks' = ticks]_vars
    /\ [][isEvolutionRunning' # isEvolutionRunning
            => evolutionState' = evolutionState]_vars

\* C12 witness: paused after a generation has run, the interval cleared.
C12_Witness ==
    /\ ~isEvolutionRunning
    /\ evolutionTimer = 0
    /\ generation > 0
    /\ DOMAIN vertexVelocities # {}

----------------------------------------------------------------------------
(* Properties of the evolver's step *)

\* The square of the distance between the endpoints an edge has now.
SquaredSpan(edge) ==
    (edge.end.x - edge.start.x) * (edge.end.x - edge.start.x)
    + (edge.end.y - edge.start.y) * (edge.end.y - edge.start.y)

\* len is the square root of n to the nearest unit.
NearestRoot(len, n) ==
    IF n = 0 THEN len = 0
    ELSE len > 0 /\ len * len - len < n /\ n <= len * len + len

\* C15: once applyEdgeValues has returned, the length field of every edge
\* is the Euclidean distance between the start and end points the edge has
\* now (to the nearest unit of the model), not one computed from positions
\* that were changed afterwards.
C15_LengthIsLive ==
    ticks > 0 => \A k \in 1..Len(edges) : NearestRoot(edges[k].length, SquaredSpan(edges[k]))

\* A step that moved an endpoint of an edge and changed its length.
C15_Witness ==
    /\ ticks > 0
    /\ \E k \in 1..Len(edges) :
          /\ edges[k].start # pre.edges[k].start
          /\ edges[k].length # pre.edges[k].length
          /\ edges[k].length > 0

\* C16: with an empty list of cells the edge list is empty, and a
\* generation runs through: analyzeAcuteAngles returns totalEdges = 0 and
\* every count 0, calculateEdgeValues returns an empty list, and the
\* evolver's step leaves the edges and the velocity store as they were.
C16_EmptyInputDegrades ==
    cells = << >> =>
        /\ edges = << >>
        /\ ticks > 0 =>
              /\ step.analysis = [totalEdges |-> 0, acuteEdgeCount |-> 0,
                                  expandingEdgeCount |-> 0, shrinkingEdgeCount |-> 0]
              /\ step.edgeValues = << >>
              /\ DOMAIN step.forces = {}
              /\ edges = pre.edges
              /\ vertexVelocities = pre.vertexVelocities
              /\ DOMAIN vertexVelocities = {}
              /\ cellPositions = << >>

\* A generation has run on the empty mesh.
C16_Witness == cells = << >> /\ ticks > 0 /\ generation > 0 /\ step.rested = << >>

\* The scalar force k * (currentLength - targetLength) of an edge along the
\* unit direction from its start to its end, as a vector in tenths of a unit.
SpringVector(edge) ==
    LET span == [x |-> edge.end.x - edge.start.x, y |-> edge.end.y - edge.start.y]
        currentLength == Hypot(span.x, span.y)
        targetLength == IF edge.targetLength \in {undefined, 0} THEN edge.length
                        ELSE edge.targetLength
        scalar == springConstantTenths * (currentLength - targetLength)
    IN  [component \in {"x", "y"} |-> MulDiv(scalar, span[component], currentLength)]

\* What an accumulator holds when every edge of non-zero length has added
\* toStart times its vector at its start and toEnd times it at its end.
Accumulated(es, key, toStart, toEnd) ==
    [component \in {"x", "y"} |->
        toStart * SumOf({k \in NonZero(es) : getVertexKey(es[k].start) = key},
                        [k \in NonZero(es) |-> SpringVector(es[k])[component]])
        + toEnd * SumOf({k \in NonZero(es) : getVertexKey(es[k].end) = key},
                        [k \in NonZero(es) |-> SpringVector(es[k])[component]])]

\* The accumulators of the last step are those of Accumulated.
AccumulatorsAre(toStart, toEnd) ==
    \A key \in DOMAIN step.forces : \A component \in {"x", "y"} :
        step.forces[key][component]
            = Accumulated(step.rested, key, toStart, toEnd)[component]

\* C17, as the code has it: for each edge of non-zero length the evolver
\* computes the scalar force k * (currentLength - targetLength) along the
\* unit direction from start to end, and adds +force to the START vertex's
\* accumulator and -force to the END vertex's accumulator, so that an edge
\* longer than its target pulls its two ends together.
C17_ForceAddedToStart == ticks > 0 => AccumulatorsAre(1, -1)

\* C17 as stated: +force is added to the end vertex's accumulator and
\* -force to the start vertex's accumulator.
C17_ForceAddedToEnd == ticks > 0 => AccumulatorsAre(-1, 1)

\* A step on one edge along +x that is longer than its target: the
\* accumulator of its start holds a force towards +x, that of its end a
\* force towards -x.
C17_Witness ==
    /\ ticks > 0
    /\ Len(step.rested) = 1
    /\ LET edge == step.rested[1]
       IN  /\ edge.end.x > edge.start.x /\ edge.end.y = edge.start.y
           /\ edge.length > edge.targetLength
           /\ step.forces[getVertexKey(edge.start)].x > 0
           /\ step.forces[getVertexKey(edge.end)].x < 0

\* The velocity a vertex starts the last step with: the one stored under
\* its key, zero when there is none.
VelocityBefore(key) ==
    IF key \in DOMAIN pre.vertexVelocities THEN pre.vertexVelocities[key]
    ELSE [x |-> 0, y |-> 0]

\* (v + f * dt) * damping for dt = 0.1 and damping = 0.85, f and v in
\* tenths of a unit.
Damped(v, f) == MulDiv(v + RDiv(f, 10), 85, 100)

\* c is p, or p one extent of the domain further.
SameUpToExtent(c, p, max) == c \in {p, p - 2 * max, p + 2 * max}

\* C19: for every vertex it integrates, updateVertexPositions computes
\* velocity' = (velocity + force * dt) * damping and then
\* position' = position + velocity' * dt (wrapped): the damping is applied
\* to the velocity the force has updated, and the position is moved with
\* the damped velocity.
C19_IntegrationOrder ==
    ticks > 0 =>
        \A key \in DOMAIN step.forces :
            LET old == VertexAt(step.rested, step.forces[key].vertex)
                new == VertexAt(edges, step.forces[key].vertex)
                velocity == [x |-> Damped(VelocityBefore(key).x, step.forces[key].x),
                             y |-> Damped(VelocityBefore(key).y, step.forces[key].y)]
            IN  /\ vertexVelocities[key] = velocity
                /\ SameUpToExtent(new.x, old.x + RDiv(velocity.x, 100), maxX)
                /\ SameUpToExtent(new.y, old.y + RDiv(velocity.y, 100), maxY)

\* A step that found a vertex with a velocity from the step before and a
\* force on it, and moved it.
C19_Witness ==
    /\ ticks > 1
    /\ \E key \in DOMAIN step.forces :
          /\ VelocityBefore(key).x # 0
          /\ step.forces[key].x # 0
          /\ vertexVelocities[key].x # VelocityBefore(key).x
          /\ VertexAt(edges, step.forces[key].vertex)
                # VertexAt(step.rested, step.forces[key].vertex)

----------------------------------------------------------------------------
(* Properties of the evolver at the borders of the domain *)

\* The vertex objects one step has moved: those an accumulator holds.
Held == DOMAIN step.forces

\* Where the integration put the vertex of an accumulator before wrapping.
Integrated(key) ==
    LET old == VertexAt(step.rested, step.forces[key].vertex)
    IN  [x |-> old.x + RDiv(vertexVelocities[key].x, 100),
         y |-> old.y + RDiv(vertexVelocities[key].y, 100)]

\* Where the step left the vertex of an accumulator.
Placed(key) == VertexAt(edges, step.forces[key].vertex)

\* w is the periodic image of p in [-max, max] for p less than one extent
\* outside, and wrapping w again changes nothing.
PeriodicImage(p, w, max) ==
    /\ (-max <= p /\ p <= max) => w = p
    /\ (p > max /\ p - max < 2 * max) => w + max = p - max
    /\ (p < -max /\ -max - p < 2 * max) => max - w = -max - p
    /\ wrapCoordinate(w, -max, max) = w

\* C13: wrapCoordinate takes a coordinate that the integration put delta
\* beyond max (delta less than the extent of the domain) to min + delta, one
\* put delta below min to max - delta, leaves a coordinate in range as it
\* is, and wrapping the result again gives the same result.
C13_WrapIsPeriodic ==
    ticks > 0 =>
        \A key \in Held :
            /\ PeriodicImage(Integrated(key).x, Placed(key).x, maxX)
            /\ PeriodicImage(Integrated(key).y, Placed(key).y, maxY)

\* One step in which a vertex passes the right border, another passes the
\* left border, and both land as far inside the opposite border.
C13_Witness ==
    /\ ticks > 0
    /\ \E key \in Held : /\ Integrated(key).x > maxX
                          /\ Placed(key).x = Integrated(key).x - 2 * maxX
    /\ \E key \in Held : /\ Integrated(key).x < -maxX
                          /\ Placed(key).x = Integrated(key).x + 2 * maxX
    /\ \E key \in Held : Placed(key).y = Integrated(key).y

\* The edges of the last step that share no vertex key with another edge
\* and have two keys.
IsolatedEdges ==
    {k \in 1..Len(step.rested) :
        LET keys(j) == {getVertexKey(step.rested[j].start), getVertexKey(step.rested[j].end)}
        IN  /\ Cardinality(keys(k)) = 2
            /\ \A j \in 1..Len(step.rested) : j # k => keys(j) \cap keys(k) = {}}

\* Both vertices of edge k started the last step at zero velocity and were
\* not wrapped.
AtRestInside(k) ==
    \A key \in {getVertexKey(step.rested[k].start), getVertexKey(step.rested[k].end)} :
        /\ VelocityBefore(key) = [x |-> 0, y |-> 0]
        /\ Placed(key) = Integrated(key)

\* The difference between length and target from which one step moves an
\* endpoint by at least one unit of the model:
\* k * dt * damping * dt = 0.3 * 0.1 * 0.85 * 0.1 of the difference.
Resolution == (10 * 100 * 100) \div (springConstantTenths * dampingFactorHundredths)

\* C18: an edge on its own whose vertices start the step at zero velocity
\* and do not cross the border of the domain moves towards its
\* targetLength in one step: it gets shorter when it is longer than the
\* target, longer when it is shorter, and keeps its length when the two are
\* equal.  (Strictly so from a difference the model's unit resolves; never
\* the other way, and never past the target.)
C18_SpringRestores ==
    ticks > 0 =>
        \A k \in IsolatedEdges :
            LET currentLength == step.rested[k].length
                targetLength == step.rested[k].targetLength
                newLength == edges[k].length
            IN  AtRestInside(k) =>
                  /\ currentLength > targetLength =>
                        /\ targetLength <= newLength /\ newLength <= currentLength
                        /\ currentLength - targetLength >= Resolution
                              => newLength < currentLength
                  /\ currentLength < targetLength =>
                        /\ currentLength <= newLength /\ newLength <= targetLength
                        /\ targetLength - currentLength >= Resolution
                              => newLength > currentLength
                  /\ currentLength = targetLength => newLength = currentLength

\* An edge on its own that one step shortened towards a shorter target and
\* the next step lengthened towards a longer one, each time from rest.
C18_Witness ==
    /\ ticks = 2
    /\ 1 \in IsolatedEdges /\ AtRestInside(1)
    /\ pre.step.rested[1].length > pre.step.rested[1].targetLength
    /\ pre.edges[1].length < pre.step.rested[1].length
    /\ step.rested[1].length < step.rested[1].targetLength
    /\ edges[1].length > step.rested[1].length

\* C20: after every step each coordinate of every vertex the step has
\* integrated lies in the half-open interval [min, max) of the domain:
\* x in [-8, 8), y in [-6, 6), also when the integration produced a
\* coordinate equal to max.
C20_WrappedIntoHalfOpenRange ==
    ticks > 0 =>
        \A key \in Held :
            /\ -maxX <= Placed(key).x /\ Placed(key).x < maxX
            /\ -maxY <= Placed(key).y /\ Placed(key).y < maxY

----------------------------------------------------------------------------
(* Properties of a long run *)

\* The endpoints of the edges.
Endpoints == UNION {{edges[k].start, edges[k].end} : k \in 1..Len(edges)}

\* C14: with dampingFactor 0.85 and the largest changeRate, generation
\* after generation up to LongGen, every vertex coordinate stays within the
\* domain ([-8, 8] for x, [-6, 6] for y: the multiple is one), and no
\* velocity a step stores moves a vertex by as much as the extent of the
\* domain in one step.
C14_NeverDiverges ==
    /\ \A vertex \in Endpoints :
          /\ -maxX <= vertex.x /\ vertex.x <= maxX
          /\ -maxY <= vertex.y /\ vertex.y <= maxY
    /\ \A key \in DOMAIN step.forces :
          /\ RDiv(Abs(vertexVelocities[key].x), 100) < 2 * maxX
          /\ RDiv(Abs(vertexVelocities[key].y), 100) < 2 * maxY

\* Two hundred generations into a run: the wrap has carried the vertices of
\* a mesh across the domain (an edge is a hundred times as long as when it
\* was first seen) and they still move.
C14_Witness ==
    /\ ticks = 200 /\ generation = 200
    /\ \E k \in 1..Len(edges) :
          /\ edges[k].originalLength > 0
          /\ edges[k].length > 100 * edges[k].originalLength
    /\ edges # pre.edges

----------------------------------------------------------------------------
(* Properties of the analysis and of the extracted edges *)

\* The edges connected to the edge of index i before the last step.
ConnectedTo(i) == Range(pre.edges[i + 1].connectedEdges)

\* C21: after analyzeAcuteAngles the acuteAngleCount of an edge E is the
\* number of edges connected to E that form an acute angle with E at a
\* shared vertex, so it lies between 0 and the number of edges connected to
\* E; a connected edge with no endpoint coincident with one of E's counts
\* as 180 degrees and adds nothing.
C21_CountsAcuteNeighbours ==
    ticks > 0 =>
        \A i \in 0..(Len(edges) - 1) :
            /\ edges[i + 1].acuteAngleCount
                  = Cardinality({j \in ConnectedTo(i) : <<i, j>> \in step.acutePairs})
            /\ edges[i + 1].acuteAngleCount <= Cardinality(ConnectedTo(i))
            /\ \A j \in ConnectedTo(i) :
                  findSharedVertex(pre.edges[i + 1], pre.edges[j + 1]) = null
                      => <<i, j>> \notin step.acutePairs

\* An edge whose start and end are the same point.
ZeroLength(edge) == edge.start = edge.end

\* C22: when an edge or an edge connected to it at a shared vertex has zero
\* length, the angle computed for the pair is 0 and the pair adds to the
\* acuteAngleCount of neither edge.
C22_DegeneratePairAddsNothing ==
    ticks > 0 =>
        \A i \in 0..(Len(pre.edges) - 1) : \A j \in ConnectedTo(i) :
            ( /\ ZeroLength(pre.edges[i + 1]) \/ ZeroLength(pre.edges[j + 1])
              /\ findSharedVertex(pre.edges[i + 1], pre.edges[j + 1]) # null )
            => /\ calculateAngleBetweenEdges(pre.edges[i + 1], pre.edges[j + 1]) = 0
               /\ <<i, j>> \notin step.acutePairs
               /\ <<j, i>> \notin step.acutePairs

\* C23: after edge extraction no edge of the list has coincident start and
\* end points: consecutive duplicate polygon vertices, the repeated first
\* vertex of a closed ring among them, produce no edge.
C23_NoZeroLengthEdges ==
    FreshMesh => \A k \in 1..Len(edges) : ~ZeroLength(edges[k])

\* C24: after findConnectedEdges the connectedEdges list of every edge
\* holds each edge index at most once.
C24_NoDuplicateConnections ==
    \A k \in 1..Len(edges) :
        Cardinality(Range(edges[k].connectedEdges)) = Len(edges[k].connectedEdges)

\* The pairs of consecutive vertices of the polygon of the cell with id c.
ConsecutivePairs(c) ==
    LET polygon == cells[c + 1].polygon
    IN  {<<polygon[i], polygon[(i % Len(polygon)) + 1]>> : i \in 1..Len(polygon)}

\* p and q are the same point at the six decimals of an edge key.
SamePoint(p, q) == toFixed6(p[1]) = toFixed6(q.x) /\ toFixed6(p[2]) = toFixed6(q.y)

\* C25: after edge extraction the connectedCells list of every edge holds
\* exactly one cell id or exactly two distinct cell ids, and each listed
\* cell has the edge as a pair of consecutive vertices of its polygon.
C25_OneOrTwoCells ==
    FreshMesh =>
        \A k \in 1..Len(edges) :
            LET owners == edges[k].connectedCells
            IN  /\ Len(owners) \in {1, 2}
                /\ Cardinality(Range(owners)) = Len(owners)
                /\ \A c \in Range(owners) :
                      \E pair \in ConsecutivePairs(c) :
                          \/ SamePoint(pair[1], edges[k].start) /\ SamePoint(pair[2], edges[k].end)
                          \/ SamePoint(pair[2], edges[k].start) /\ SamePoint(pair[1], edges[k].end)

\* The edges es with the two analysis fields of every edge overwritten.
WithAnalysisFields(es, count, value) ==
    [k \in 1..Len(es) |-> [es[k] EXCEPT !.acuteAngleCount = count, !.expandValue = value]]

\* C26: analyzeAcuteAngles and calculateEdgeValues change only the
\* acuteAngleCount and expandValue fields of the edges (ids, start and end
\* positions, length, originalLength, targetLength, connectedEdges and
\* connectedCells stay as they were), and what they write does not depend
\* on the values the two fields had.
C26_AnalyzerFrame ==
    (ticks > 0 /\ generation > 0) =>
        /\ WithAnalysisFields(step.valued, 0, 0) = WithAnalysisFields(pre.edges, 0, 0)
        /\ \A fields \in {<<0, 0>>, <<7, -35>>} :
              step.valued = calculateEdgeValues(
                  analyzeAcuteAngles(WithAnalysisFields(pre.edges, fields[1], fields[2])),
                  step.rate)

\* A second analysis of edges that carried counts and values of the first,
\* and had been moved in between.
C26_Witness ==
    /\ ticks > 1 /\ generation > 1
    /\ \E k \in 1..Len(pre.edges) :
          /\ pre.edges[k].acuteAngleCount > 0 /\ pre.edges[k].expandValue > 0
          /\ pre.edges[k].originalLength # undefined
          /\ pre.edges[k].length # pre.edges[k].originalLength
    /\ \E k \in 1..Len(pre.edges) : pre.edges[k].expandValue < 0
    /\ Len(step.valued) = Len(pre.edges)

\* C27: the id of every edge is its index in the edge list, so ids are
\* pairwise distinct and every connectedEdges entry is the index of an edge
\* of the list; a generation changes no id, not the number of edges, and no
\* connectedEdges or connectedCells list.
C27_StableIdentity ==
    /\ \A k \in 1..Len(edges) :
          /\ edges[k].id = k - 1
          /\ \A j \in Range(edges[k].connectedEdges) : 0 <= j /\ j < Len(edges)
    /\ \A k, j \in 1..Len(edges) : edges[k].id = edges[j].id => k = j
    /\ ticks > 0 =>
          /\ Len(edges) = Len(pre.edges)
          /\ \A k \in 1..Len(edges) :
                /\ edges[k].id = pre.edges[k].id
                /\ edges[k].connectedEdges = pre.edges[k].connectedEdges
                /\ edges[k].connectedCells = pre.edges[k].connectedCells

\* A generation that moved the endpoints of edges connected to each other
\* and owned by two cells.
C27_Witness ==
    /\ ticks > 0 /\ generation > 0
    /\ \E k \in 1..Len(edges) :
          /\ edges[k].start # pre.edges[k].start
          /\ Len(edges[k].connectedEdges) > 1
          /\ Len(edges[k].connectedCells) = 2

----------------------------------------------------------------------------
(* Properties of the application's timer, counter and velocity store *)

\* C28: whatever the sequence of start, pause, regenerate and timer ticks,
\* at most one interval timer is live, and isEvolutionRunning is true
\* exactly when one is; nothing done while running and staying running, or
\* while paused and staying paused, touches the timer (start while running
\* and pause while paused do nothing), and a regeneration leaves the timer
\* and the flag as they are.
C28_SingleTimer ==
    /\ [](/\ Cardinality(timers) <= 1
          /\ isEvolutionRunning <=> timers # {}
          /\ isEvolutionRunning => timers = {evolutionTimer})
    /\ [][isEvolutionRunning' = isEvolutionRunning
            => timers' = timers /\ evolutionTimer' = evolutionTimer]_vars
    /\ [][(cells' # cells \/ generation' < generation \/ (pre # NoPre /\ pre' = NoPre))
            => timers' = timers /\ isEvolutionRunning' = isEvolutionRunning]_vars

\* The mesh regenerated while the timer was live, after a generation.
C28_Witness ==
    /\ isEvolutionRunning /\ timers = {evolutionTimer}
    /\ ticks > 0 /\ generation = 0 /\ pre = NoPre
    /\ DOMAIN vertexVelocities # {}

\* C29: the generation counter is the number of generations run since the
\* mesh was last regenerated: it is 0 exactly while no generation has run on
\* the mesh, every timer tick adds exactly 1, a regeneration sets it to 0,
\* and start and pause leave it as it is.
C29_GenerationCounter ==
    /\ [](/\ generation >= 0 /\ generation <= ticks
          /\ generation = 0 <=> FreshMesh)
    /\ [][ticks' # ticks => generation' = generation + 1]_vars
    /\ [][(cells' # cells \/ (~FreshMesh /\ pre' = NoPre)) => generation' = 0]_vars
    /\ [][isEvolutionRunning' # isEvolutionRunning => generation' = generation]_vars

\* One generation run after a regeneration that followed another generation.
C29_Witness == generation = 1 /\ ticks = 2 /\ pre.step = NoStep /\ ~FreshMesh

\* The keys of the positions the endpoints of the edges have now.
OccupiedKeys == {getVertexKey(vertex) : vertex \in Endpoints}

\* C30: after any number of generations the velocity store holds at most
\* one entry for each position an edge endpoint has now: no entry is keyed
\* by a position that no endpoint occupies any more.
C30_StoreHoldsOnlyOccupiedKeys ==
    /\ DOMAIN vertexVelocities \subseteq OccupiedKeys
    /\ Cardinality(DOMAIN vertexVelocities) <= Cardinality(OccupiedKeys)

====
